---- MODULE Spec2Model ----
(***************************************************************************)
(* Model of aioari.client.Client (src/aioari/client.py): the listener      *)
(* registry (on_event / on_object_event / EventUnsubscriber.close), the    *)
(* dispatcher (process_ws), and the connection supervisor (run / __run /   *)
(* close).                                                                 *)
(*                                                                         *)
(* Python values are encoded as strings: "None", "False", "True" and the   *)
(* channel identifiers of Ids.  A listener tuple                           *)
(*   (event_cb, event_obj, args, kwargs, as_task)                          *)
(* is a record with those five fields plus two ghost fields: rid, the      *)
(* identity of the tuple object (one fresh rid per on_event call), and     *)
(* etype, the event type it was registered for.  Python's == on tuples     *)
(* ignores identity, so it is modelled by TupleEq, never by = on records.  *)
(***************************************************************************)
EXTENDS Integers, Sequences, FiniteSets, TLC

VARIABLES
    event_listeners,  \* Client.event_listeners: event type -> list of listener tuples
    nextRid,          \* ghost: identity given to the next listener tuple / closure
    handles,          \* EventUnsubscriber objects returned so far
    lastCall,         \* ghost: the last API call made and how it ended
    gone,             \* ghost: rids whose handle was closed or that the
                      \*        ChannelDestroyed pass dropped
    dpc,              \* process_ws: "idle" or "in_listener"
    dmsg,             \* process_ws: the message being (or last) dispatched
    dsnap,            \* process_ws: the local list `listeners` (emptied at the return)
    di,               \* process_ws: index in dsnap of the listener running
    calls,            \* ghost: invocations made so far by the running process_ws
    handled,          \* ghost: rids whose exception reached exception_handler, for dmsg
    dres,             \* ghost: how the last process_ws ended
    tasks,            \* rids of listeners whose awaitable went to asyncio.create_task
                      \*        and has not ended yet
    rpc,              \* run(): position of the supervisor task
    rerr,             \* run(): the exception that left run(), or "none"
    cur,              \* run(): the local `ws`
    websockets,       \* Client.websockets
    opened,           \* stream handles opened so far (ids 1..opened)
    wsClosed,         \* handles on which ws.close() was called
    collab,           \* the stream-open collaborator: "transport", "other" or "ok"
    cpc,              \* close(): position
    clist,            \* close(): handles of list(self.websockets) still to visit
    csnap,            \* ghost: the handles tracked when close() took its list
    swaggerClosed     \* swagger.close() was called

regVars  == <<event_listeners, nextRid, handles>>
dispVars == <<dpc, dmsg, dsnap, di, calls, handled, dres, tasks>>
runVars  == <<rpc, rerr, cur, websockets, opened, wsClosed, collab>>
closeVars == <<cpc, clist, csnap, swaggerClosed>>
vars == <<regVars, lastCall, gone, dispVars, runVars, closeVars>>

----------------------------------------------------------------------------
(* Bounds *)

MaxRegs == 3      \* on_event calls that reach the registry in one behaviour
MaxOpens == 3     \* stream handles opened in one behaviour

(* Input domains *)

Ids == {"42", "43"}                       \* channel identifiers
EventTypes == {"ChannelDestroyed", "Dial", "BridgeDestroyed", "*"}
Callbacks == {"cb_ok", "cb_raise", "cb_coro_raise"}

\* What calling the user's callback does: return normally, raise
\* synchronously, or return an awaitable that raises when it runs.
Behaviour(fn) ==
    CASE fn = "cb_ok" -> "return"
      [] fn = "cb_raise" -> "raise"
      [] fn = "cb_coro_raise" -> "coro_raise"

\* Python truthiness of an encoded value.
Truthy(v) == v \notin {"None", "False", "absent", "null"}

----------------------------------------------------------------------------
(* Python list primitives *)

RemoveAt(s, i) == SubSeq(s, 1, i - 1) \o SubSeq(s, i + 1, Len(s))

\* == on two listener tuples: element-wise equality of the five elements.
TupleEq(a, b) ==
    /\ a.callback = b.callback
    /\ a.event_obj = b.event_obj
    /\ a.args = b.args
    /\ a.kwargs = b.kwargs
    /\ a.as_task = b.as_task

\* `x in lst`
ListContains(lst, x) == \E i \in 1..Len(lst) : TupleEq(lst[i], x)

\* lst.remove(x): drops the first element equal to x (callers guard presence).
ListRemove(lst, x) ==
    IF ListContains(lst, x)
    THEN RemoveAt(lst, CHOOSE i \in 1..Len(lst) :
                          /\ TupleEq(lst[i], x)
                          /\ \A j \in 1..(i - 1) : ~TupleEq(lst[j], x))
    ELSE lst

----------------------------------------------------------------------------
(* Client.on_event, lines 218-246 *)

\* Binding of on_event(event_type, event_cb, event_obj=None, as_task=False,
\* *args, **kwargs) for a call with positional extras `pos` after event_cb,
\* an optional keyword as_task ("unset" when not given) and other keywords.
BindOnEvent(pos, kw_as_task, kwargs) ==
    IF Len(pos) >= 2 /\ kw_as_task # "unset"
    THEN [error |-> "TypeError"]
    ELSE [error |-> "none",
          event_obj |-> IF Len(pos) >= 1 THEN pos[1] ELSE "None",
          as_task |-> IF Len(pos) >= 2 THEN pos[2]
                      ELSE IF kw_as_task # "unset" THEN kw_as_task ELSE "False",
          args |-> SubSeq(pos, 3, Len(pos)),
          kwargs |-> kwargs]

\* A mutation of on_event_remove: the old entry is kept.
on_event_remove_keep(listeners, event_cb, i) == listeners

\* for cb in listeners: if event_cb == cb[0]: listeners.remove(cb)
\* (the list iterator is an index that advances after each pass, while
\* remove() shortens the list under it).
RECURSIVE on_event_remove(_, _, _)
on_event_remove(listeners, event_cb, i) ==
    IF i > Len(listeners) THEN listeners
    ELSE IF event_cb = listeners[i].callback
         THEN on_event_remove(ListRemove(listeners, listeners[i]), event_cb, i + 1)
         ELSE on_event_remove(listeners, event_cb, i + 1)

\* A plain function passed to on_event: equal to itself by name.
PlainCallback(fn) == [fn |-> fn, cid |-> 0, fields |-> << >>, kind |-> "none"]

callback_obj(event_type, event_cb, b, rid) ==
    [callback |-> event_cb, event_obj |-> b.event_obj, args |-> b.args,
     kwargs |-> b.kwargs, as_task |-> b.as_task, rid |-> rid, etype |-> event_type]

\* The registry after on_event(event_type, event_cb, ...) with binding b.
on_event(reg, event_type, event_cb, b, rid) ==
    [reg EXCEPT ![event_type] =
        Append(on_event_remove(reg[event_type], event_cb, 1),
               callback_obj(event_type, event_cb, b, rid))]

\* EventUnsubscriber.close, lines 240-244
unsubscriber_close(reg, h) ==
    IF ListContains(reg[h.etype], h)
    THEN [reg EXCEPT ![h.etype] = ListRemove(@, h)]
    ELSE reg

----------------------------------------------------------------------------
(* Client.on_object_event, lines 248-300 *)

\* Client.event_models: the `properties` of each event model, as
\* <<field name, declared type>> pairs in declaration order.  An event type
\* without a model has no entry (<<>> stands for the missing entry).
event_models(event_type) ==
    CASE event_type = "ChannelDestroyed" ->
            << <<"cause", "int">>, <<"channel", "Channel">> >>
      [] event_type = "Dial" ->
            << <<"caller", "Channel">>, <<"dialstatus", "string">>,
               <<"peer", "Channel">> >>
      [] event_type = "BridgeDestroyed" ->
            << <<"bridge", "Bridge">> >>
      [] OTHER -> << >>

ModelIds == {"Channel", "Bridge"}

RECURSIVE FieldsOfType(_, _)
FieldsOfType(props, model_id) ==
    IF props = << >> THEN << >>
    ELSE (IF Head(props)[2] = model_id THEN <<Head(props)[1]>> ELSE << >>)
         \o FieldsOfType(Tail(props), model_id)

\* A mutation of obj_fields: the requested kind is ignored.
obj_fields_any_kind(event_type, model_id) ==
    FieldsOfType(event_models(event_type), "Channel")

\* obj_fields = [k for (k, v) in event_model['properties'].items()
\*               if v['type'] == model_id]
obj_fields(event_type, model_id) == FieldsOfType(event_models(event_type), model_id)

\* The two `raise ValueError` guards of on_object_event.
on_object_event_error(event_type, model_id) ==
    IF event_models(event_type) = << >> THEN "ValueError"
    ELSE IF obj_fields(event_type, model_id) = << >> THEN "ValueError"
    ELSE "none"

\* factory_fn(self, event[obj_field])
factory_fn(model_id, raw) == [kind |-> model_id, id |-> raw]

SeqRange(s) == {s[i] : i \in 1..Len(s)}

\* obj = {f: factory_fn(self, event[f]) for f in obj_fields if event.get(f)}
ExtractedMap(fields, model_id, event) ==
    [f \in {g \in SeqRange(fields) : Truthy(event[g])} |-> factory_fn(model_id, event[f])]

\* A mutation of extract_objects: the collapse looks at the objects found
\* in the message instead of the schema.
extract_objects_by_message(fields, model_id, event) ==
    LET obj == ExtractedMap(fields, model_id, event)
    IN  IF Cardinality(DOMAIN obj) = 1
        THEN [tag |-> "Object", val |-> obj[CHOOSE f \in DOMAIN obj : TRUE]]
        ELSE IF DOMAIN obj = {} THEN [tag |-> "None", val |-> << >>]
        ELSE [tag |-> "Mapping", val |-> obj]

\* extract_objects, lines 277-296: the first argument handed to event_cb.
extract_objects(fields, model_id, event) ==
    LET obj == ExtractedMap(fields, model_id, event)
    IN  IF Len(fields) = 1
        THEN IF DOMAIN obj # {}
             THEN [tag |-> "Object", val |-> obj[fields[1]]]
             ELSE [tag |-> "None", val |-> << >>]
        ELSE [tag |-> "Mapping", val |-> obj]

\* The closure extract_objects made by one on_object_event call: a new
\* function object each time, equal only to itself (cid).
ExtractCallback(fn, fields, model_id, cid) ==
    [fn |-> fn, cid |-> cid, fields |-> fields, kind |-> model_id]

----------------------------------------------------------------------------
(* Client.process_ws, lines 160-186 *)

Msg(type, channel, caller, peer) ==
    [type |-> type, channel |-> channel, caller |-> caller, peer |-> peer,
     bridge |-> "absent"]

NoMsg == Msg("none", "absent", "absent", "absent")

\* A mutation of resolve: wildcard listeners first.
resolve_wildcard_first(reg, type) == reg["*"] \o reg[type]

\* listeners = list(event_listeners.get(msg['type'], [])) + list(event_listeners.get('*', []))
resolve(reg, type) ==
    (IF type \in DOMAIN reg THEN reg[type] ELSE << >>) \o reg["*"]

\* What callback(msg, *args, **kwargs) hands to the user's function first:
\* the extracted object(s) for an extract_objects closure, nothing otherwise.
Delivered(listener, msg) ==
    IF listener.callback.cid = 0
    THEN [tag |-> "NoObject", val |-> << >>]
    ELSE extract_objects(listener.callback.fields, listener.callback.kind, msg)

\* Line 172, callback(msg, *args, **kwargs), and for an extract_objects
\* closure line 296, event_cb(obj, event, *args, **kwargs).
CallOf(listener, msg) ==
    [rid |-> listener.rid, fn |-> listener.callback.fn, etype |-> listener.etype,
     obj |-> Delivered(listener, msg),
     args |-> listener.args, kwargs |-> listener.kwargs]

\* A mutation of after_listener: no try/except around the listener.
after_listener_uncaught(outcome, as_task) ==
    CASE outcome = "return" -> "continue"
      [] outcome = "raise" -> "propagate"
      [] outcome = "coro_raise" -> IF Truthy(as_task) THEN "detached" ELSE "propagate"

\* Lines 167-181: what the loop body does with the callback's outcome.
\* "handled" = the except clause ran exception_handler(e); "detached" = the
\* awaitable went to asyncio.create_task and is not awaited here.
after_listener(outcome, as_task) ==
    CASE outcome = "return" -> "continue"
      [] outcome = "raise" -> "handled"
      [] outcome = "coro_raise" -> IF Truthy(as_task) THEN "detached" ELSE "handled"

\* `x in item` for a listener tuple: x == each of the five elements.  x is a
\* str; the callback is a function, args a tuple and kwargs a dict, none of
\* which equals a str.
TupleHas(item, x) ==
    \/ FALSE                  \* x == callback
    \/ x = item.event_obj
    \/ FALSE                  \* x == args
    \/ FALSE                  \* x == kwargs
    \/ x = item.as_task

Entries(reg) == UNION {SeqRange(reg[t]) : t \in DOMAIN reg}

RECURSIVE RemoveEach(_, _)
RemoveEach(lst, os) ==
    IF os = << >> THEN lst ELSE RemoveEach(ListRemove(lst, Head(os)), Tail(os))

\* A mutation of remove_matching: every item is taken to match.
remove_matching_all(lst, x) == << >>

\* for o in [item for item in lst if x in item]: lst.remove(o)
remove_matching(lst, x) ==
    RemoveEach(lst, SelectSeq(lst, LAMBDA item : TupleHas(item, x)))

\* Lines 183-186.  msg.get('channel').get('id') is evaluated once per item
\* examined, so it raises AttributeError (channel missing or null) only
\* when some list has an item.
gc(reg, msg) ==
    IF msg.type # "ChannelDestroyed" THEN [error |-> "none", reg |-> reg]
    ELSE IF \A t \in DOMAIN reg : reg[t] = << >> THEN [error |-> "none", reg |-> reg]
    ELSE IF ~Truthy(msg.channel) THEN [error |-> "AttributeError", reg |-> reg]
    ELSE [error |-> "none",
          reg |-> [t \in DOMAIN reg |-> remove_matching(reg[t], msg.channel)]]

----------------------------------------------------------------------------
(* Calls of the registration surface *)

\* The shapes of the extra arguments of a registration call: the positional
\* extras after the callback, the keyword as_task, the other keywords.
Form(pos, as_task, kwargs) == [pos |-> pos, as_task |-> as_task, kwargs |-> kwargs]
PlainForm == Form(<< >>, "unset", {})
TaskForm == Form(<< >>, "True", {})
PosForm(x) == Form(<<x>>, "unset", {})
KwForm(x) == Form(<< >>, "unset", {<<"channel_id", x>>})
ArgsForm(x) == Form(<<"None", "False", x>>, "unset", {})

\* form: the extra arguments the caller gave (PlainForm when there were none).
Call(op, etype, model_id, rid, result) ==
    [op |-> op, etype |-> etype, model_id |-> model_id, rid |-> rid, result |-> result,
     form |-> PlainForm]
CallWith(op, etype, model_id, rid, result, given) ==
    [Call(op, etype, model_id, rid, result) EXCEPT !.form = given]

\* Binding of on_object_event(event_type, event_cb, factory_fn, model_id,
\* as_task=False, *args, **kwargs).
BindOnObjectEvent(pos, kw_as_task, kwargs) ==
    IF Len(pos) >= 1 /\ kw_as_task # "unset"
    THEN [error |-> "TypeError"]
    ELSE [error |-> "none",
          as_task |-> IF Len(pos) >= 1 THEN pos[1]
                      ELSE IF kw_as_task # "unset" THEN kw_as_task ELSE "False",
          args |-> IF Len(pos) >= 1 THEN Tail(pos) ELSE << >>,
          kwargs |-> kwargs]

\* on_event(event_type, event_cb, <form f>) returning an EventUnsubscriber;
\* op, model_id, given: the surface call being made and the extra arguments
\* its caller gave, for lastCall.
Register(event_type, event_cb, f, op, model_id, given) ==
    LET b == BindOnEvent(f.pos, f.as_task, f.kwargs)
        about == IF op = "on_event" THEN "none" ELSE event_type
    IN  IF b.error # "none"
        THEN /\ lastCall' = CallWith(op, about, model_id, 0, b.error, given)
             /\ UNCHANGED regVars
        ELSE /\ event_listeners' = on_event(event_listeners, event_type, event_cb, b, nextRid)
             /\ handles' = handles \cup {callback_obj(event_type, event_cb, b, nextRid)}
             /\ nextRid' = nextRid + 1
             /\ lastCall' = CallWith(op, about, model_id, nextRid, "ok", given)

OnEvent(types, fns, forms) ==
    /\ nextRid <= MaxRegs
    /\ \E t \in types, fn \in fns, f \in forms :
          Register(t, PlainCallback(fn), f, "on_event", "none", f)
    /\ UNCHANGED <<gone, dispVars, runVars, closeVars>>

\* on_object_event(t, fn, factory_fn, k, <form f>): argument binding, the two
\* ValueError guards, then
\* self.on_event(event_type, extract_objects, as_task=as_task, *args, **kwargs).
ObjectEventCall(t, fn, k, f, op, given) ==
    LET b == BindOnObjectEvent(f.pos, f.as_task, f.kwargs)
    IN  IF b.error # "none"
        THEN /\ lastCall' = CallWith(op, t, k, 0, b.error, given)
             /\ UNCHANGED regVars
        ELSE IF on_object_event_error(t, k) # "none"
        THEN /\ lastCall' = CallWith(op, t, k, 0, on_object_event_error(t, k), given)
             /\ UNCHANGED regVars
        ELSE Register(t, ExtractCallback(fn, obj_fields(t, k), k, nextRid),
                      Form(b.args, b.as_task, b.kwargs), op, k, given)

OnObjectEvent(types, fns, kinds, forms) ==
    /\ nextRid <= MaxRegs
    /\ \E t \in types, fn \in fns, k \in kinds, f \in forms :
          ObjectEventCall(t, fn, k, f, "on_object_event", f)
    /\ UNCHANGED <<gone, dispVars, runVars, closeVars>>

\* on_channel_event(event_type, fn, as_task=False, *args, **kwargs), lines
\* 302-312: its own binding takes the first extra positional as as_task, then
\* self.on_object_event(event_type, fn, Channel, 'Channel', as_task=as_task,
\*                      *args, **kwargs).
OnChannelEvent(types, fns, forms) ==
    /\ nextRid <= MaxRegs
    /\ \E t \in types, fn \in fns, f \in forms :
          LET b == BindOnObjectEvent(f.pos, f.as_task, f.kwargs)
          IN  IF b.error # "none"
              THEN /\ lastCall' = CallWith("on_channel_event", t, "Channel", 0, b.error, f)
                   /\ UNCHANGED regVars
              ELSE ObjectEventCall(t, fn, "Channel", Form(b.args, b.as_task, b.kwargs),
                                   "on_channel_event", f)
    /\ UNCHANGED <<gone, dispVars, runVars, closeVars>>

\* on_bridge_event(event_type, fn, *args, **kwargs), lines 314-324:
\* self.on_object_event(event_type, fn, Bridge, 'Bridge', *args, **kwargs).
OnBridgeEvent(types, fns, forms) ==
    /\ nextRid <= MaxRegs
    /\ \E t \in types, fn \in fns, f \in forms :
          ObjectEventCall(t, fn, "Bridge", f, "on_bridge_event", f)
    /\ UNCHANGED <<gone, dispVars, runVars, closeVars>>

\* EventUnsubscriber.close() on a handle returned earlier.
HandleClose ==
    /\ \E h \in handles :
          /\ event_listeners' = unsubscriber_close(event_listeners, h)
          /\ lastCall' = Call("close", h.etype, "none", h.rid, "ok")
          /\ gone' = gone \cup {h.rid}
    /\ UNCHANGED <<nextRid, handles, dispVars, runVars, closeVars>>

----------------------------------------------------------------------------
(* process_ws as steps.  The task can be interleaved with other code only  *)
(* while a listener runs (inside the callback, or while it is awaited), so *)
(* a step runs from one listener's start to the next listener's start, and *)
(* the last one runs through the ChannelDestroyed pass to the return.      *)

\* process_ws returns or raises after the ChannelDestroyed pass; when __run
\* made the call (byRun) it reads the next frame, or the exception leaves
\* __run and run().
Finish(reg, msg, byRun) ==
    LET g == gc(reg, msg)
    IN  /\ event_listeners' = g.reg
        /\ gone' = gone \cup ({e.rid : e \in Entries(reg)} \ {e.rid : e \in Entries(g.reg)})
        /\ dpc' = "idle"
        /\ dres' = g.error
        /\ dsnap' = << >>
        /\ di' = 0
        /\ calls' = << >>
        /\ IF byRun
           THEN /\ rpc' = IF g.error = "none" THEN "reading" ELSE "raised"
                /\ rerr' = g.error
           ELSE UNCHANGED <<rpc, rerr>>

\* A mutation of run_during_dispatch: __run does not wait for process_ws.
run_during_dispatch_detached(byRun, pos) == IF byRun THEN "reading" ELSE pos

\* Line 158: `await self.process_ws(msg_json)`; __run is suspended in that
\* await until process_ws has returned.  pos: where run() is otherwise.
run_during_dispatch(byRun, pos) == IF byRun THEN "dispatching" ELSE pos

\* process_ws entered with msg: the snapshot is taken and the first
\* listener is called.
Enter(msg, byRun) ==
    LET listeners == resolve(event_listeners, msg.type)
    IN  /\ dmsg' = msg
        /\ handled' = << >>
        /\ tasks' = tasks
        /\ IF listeners = << >>
           THEN Finish(event_listeners, msg, byRun)
           ELSE /\ dsnap' = listeners
                /\ calls' = <<CallOf(listeners[1], msg)>>
                /\ di' = 1
                /\ dpc' = "in_listener"
                /\ dres' = "running"
                /\ rpc' = run_during_dispatch(byRun, rpc)
                /\ UNCHANGED <<event_listeners, gone, rerr>>

\* A direct call of process_ws(msg).
ProcessWs(msgs) ==
    /\ dpc = "idle"
    /\ rpc = "idle"
    /\ \E msg \in msgs : Enter(msg, FALSE)
    /\ lastCall' = Call("process_ws", "none", "none", 0, "ok")
    /\ UNCHANGED <<nextRid, handles, cur, websockets, opened, wsClosed, collab, closeVars>>

\* A mutation of iterated: the loop walks the registry's lists themselves.
iterated_live(snap, reg, msg) == resolve(reg, msg.type)

\* Lines 163-165: `listeners` is built by list(...) + list(...), a new list
\* object, and `for listener in listeners` walks that list whatever happens
\* to the registry's lists meanwhile.
iterated(snap, reg, msg) == snap

\* The running listener ends; the loop goes on to the next one or to the
\* ChannelDestroyed pass.
ListenerDone ==
    /\ dpc = "in_listener"
    /\ LET l == dsnap[di]
           r == after_listener(Behaviour(l.callback.fn), l.as_task)
           listeners == iterated(dsnap, event_listeners, dmsg)
       IN  /\ handled' = IF r = "handled" THEN Append(handled, l.rid) ELSE handled
           /\ tasks' = IF r = "detached" THEN tasks \cup {l.rid} ELSE tasks
           /\ IF r = "propagate"
              THEN /\ dpc' = "idle"
                   /\ dres' = "listener_error"
                   /\ IF rpc = "dispatching"
                      THEN rpc' = "raised" /\ rerr' = "listener_error"
                      ELSE UNCHANGED <<rpc, rerr>>
                   /\ dsnap' = << >>
                   /\ di' = 0
                   /\ calls' = << >>
                   /\ UNCHANGED <<event_listeners, gone>>
              ELSE IF di < Len(listeners)
              THEN /\ di' = di + 1
                   /\ calls' = Append(calls, CallOf(listeners[di + 1], dmsg))
                   /\ dsnap' = listeners
                   /\ UNCHANGED <<event_listeners, gone, dpc, dres, rpc, rerr>>
              ELSE Finish(event_listeners, dmsg, rpc = "dispatching")
    /\ lastCall' = Call("process_ws", "none", "none", 0, "ok")
    /\ UNCHANGED <<nextRid, handles, dmsg, cur, websockets, opened, wsClosed, collab, closeVars>>

\* Line 176: asyncio.create_task(cb).  The Task is not kept, awaited or
\* given a done callback, so an exception of cb stays in the Task object
\* and exception_handler is not called with it.
detached_failure == "unretrieved"

\* A detached awaitable runs to its end, raising.
TaskDone ==
    /\ \E r \in tasks :
          /\ tasks' = tasks \ {r}
          /\ handled' = IF detached_failure = "handled" THEN Append(handled, r) ELSE handled
    /\ lastCall' = Call("task_done", "none", "none", 0, "raise")
    /\ UNCHANGED <<regVars, gone, dpc, dmsg, dsnap, di, calls, dres, runVars, closeVars>>

----------------------------------------------------------------------------
(* Client.run, lines 188-215, and Client.__run, lines 136-158 *)

\* The kinds of result of `await ws.receive()`: None, a CLOSED/CLOSING
\* message, a message that is not TEXT, and TEXT messages whose data is not
\* JSON, is JSON but no object, is an object without 'type', or is an event.
FrameKinds == {"eof", "close", "binary", "bad_json", "not_object", "no_type", "event"}

\* A mutation of open_failure: the transport error is not caught.
open_failure_uncaught(failure) == "raise"

\* Lines 201-206: an exception of eventWebsocket is caught when it is an
\* OSError, ClientConnectionError or WSServerHandshakeError ("transport");
\* then run() sleeps one second and tries again.  Any other leaves run().
open_failure(failure) == IF failure = "transport" THEN "retry" ELSE "raise"

\* Lines 146-158: what __run does with one received frame.  json.loads is
\* called outside any try, so its JSONDecodeError leaves __run.
classify(kind) ==
    CASE kind \in {"eof", "close"} -> "end"
      [] kind = "binary" -> "skip"
      [] kind = "bad_json" -> "raise"
      [] kind \in {"not_object", "no_type"} -> "skip"
      [] kind = "event" -> "dispatch"

RunCall(op, result) == Call(op, "none", "none", 0, result)

\* run(apps) is called: line 197 splits apps, which a list does not allow.
Run ==
    /\ rpc = "idle"
    /\ \E apps \in {"str", "list"} :
          IF apps = "list"
          THEN rpc' = "raised" /\ rerr' = "AttributeError"
          ELSE rpc' = "connecting" /\ rerr' = rerr
    /\ lastCall' = RunCall("run", "ok")
    /\ UNCHANGED <<regVars, gone, dispVars, cur, websockets, opened, wsClosed, collab, closeVars>>

\* await self.swagger.events.eventWebsocket(...) ends.  On success the
\* handle is tracked and __run awaits its first frame (the peer address of
\* a handle just connected is taken to be available).
Open ==
    /\ rpc = "connecting"
    /\ IF collab = "ok"
       THEN /\ opened < MaxOpens
            /\ opened' = opened + 1
            /\ cur' = opened + 1
            /\ websockets' = websockets \cup {opened + 1}
            /\ rpc' = "reading"
            /\ UNCHANGED rerr
       ELSE /\ IF open_failure(collab) = "retry"
               THEN rpc' = "sleeping" /\ UNCHANGED rerr
               ELSE rpc' = "raised" /\ rerr' = collab
            /\ UNCHANGED <<opened, cur, websockets>>
    /\ lastCall' = RunCall("open", collab)
    /\ UNCHANGED <<regVars, gone, dispVars, wsClosed, collab, closeVars>>

\* await asyncio.sleep(1) ends; `continue`.
Wake ==
    /\ rpc = "sleeping"
    /\ rpc' = "connecting"
    /\ lastCall' = RunCall("wake", "ok")
    /\ UNCHANGED <<regVars, gone, dispVars, rerr, cur, websockets, opened, wsClosed, collab, closeVars>>

\* The stream-open collaborator stops failing.
Recover ==
    /\ collab # "ok"
    /\ collab' = "ok"
    /\ lastCall' = RunCall("recover", "ok")
    /\ UNCHANGED <<regVars, gone, dispVars, rpc, rerr, cur, websockets, opened, wsClosed, closeVars>>

\* await ws.receive() ends with a frame.  A handle on which close() was
\* called yields CLOSED.  When __run ends, run() loops to a new
\* eventWebsocket call; the ended handle stays in self.websockets.
Receive(msgs) ==
    /\ rpc = "reading"
    /\ dpc = "idle"
    /\ \E kind \in FrameKinds :
          /\ cur \in wsClosed => kind = "close"
          /\ classify(kind) = "end" => opened < MaxOpens
          /\ lastCall' = RunCall("receive", kind)
          /\ CASE classify(kind) = "end" ->
                    /\ rpc' = "connecting"
                    /\ UNCHANGED <<event_listeners, gone, dispVars, rerr>>
               [] classify(kind) = "skip" ->
                    UNCHANGED <<event_listeners, gone, dispVars, rpc, rerr>>
               [] classify(kind) = "raise" ->
                    /\ rpc' = "raised"
                    /\ rerr' = "JSONDecodeError"
                    /\ UNCHANGED <<event_listeners, gone, dispVars>>
               [] classify(kind) = "dispatch" ->
                    \E msg \in msgs : Enter(msg, TRUE)
    /\ UNCHANGED <<nextRid, handles, cur, websockets, opened, wsClosed, collab, closeVars>>

----------------------------------------------------------------------------
(* Client.close, lines 67-100 *)

\* Lines 93 and 98: `await ws.close()` is in no try block, so its exception
\* leaves the loop and close().
ws_close_failure(outcome) == IF outcome = "ok" THEN "next" ELSE "raise"

\* One pass of `for ws in list(self.websockets)` up to its await: the peer
\* address is asked for (a TypeError is caught), ws leaves self.websockets
\* and ws.close() is called.  With no handle left, swagger.close() is next.
CloseVisit(todo, tracked) ==
    IF todo = << >>
    THEN /\ cpc' = "swagger"
         /\ clist' = << >>
         /\ websockets' = tracked
         /\ UNCHANGED wsClosed
    ELSE /\ \E peer \in {"ok", "TypeError"} : TRUE
         /\ cpc' = "closing"
         /\ clist' = todo
         /\ websockets' = tracked \ {Head(todo)}
         /\ wsClosed' = wsClosed \cup {Head(todo)}

Orderings(S) == {q \in [1..Cardinality(S) -> S] : \A x \in S : \E i \in DOMAIN q : q[i] = x}

\* close() is called: the unsubscribe request is sent.
ClientClose ==
    /\ cpc = "idle"
    /\ cpc' = "unsubscribing"
    /\ lastCall' = RunCall("client_close", "ok")
    /\ UNCHANGED <<regVars, gone, dispVars, runVars, clist, csnap, swaggerClosed>>

\* The unsubscribe request ends, well or not (lines 81-85: any Exception
\* is dropped); the list of tracked handles is taken, in any order.
Unsubscribed ==
    /\ cpc = "unsubscribing"
    /\ \E outcome \in {"ok", "fail"} : TRUE
    /\ csnap' = websockets
    /\ \E todo \in Orderings(websockets) : CloseVisit(todo, websockets)
    /\ lastCall' = RunCall("client_close", "ok")
    /\ UNCHANGED <<regVars, gone, dispVars, rpc, rerr, cur, opened, collab, swaggerClosed>>

\* `await ws.close()` on the handle at the head of clist ends.
WsClosed ==
    /\ cpc = "closing"
    /\ \E outcome \in {"ok", "fail"} :
          IF ws_close_failure(outcome) = "raise"
          THEN /\ cpc' = "raised"
               /\ UNCHANGED <<clist, websockets, wsClosed>>
          ELSE CloseVisit(Tail(clist), websockets)
    /\ lastCall' = RunCall("client_close", "ok")
    /\ UNCHANGED <<regVars, gone, dispVars, rpc, rerr, cur, opened, collab, csnap, swaggerClosed>>

\* await self.swagger.close()
SwaggerClose ==
    /\ cpc = "swagger"
    /\ swaggerClosed' = TRUE
    /\ cpc' = "done"
    /\ lastCall' = RunCall("client_close", "ok")
    /\ UNCHANGED <<regVars, gone, dispVars, runVars, clist, csnap>>

----------------------------------------------------------------------------
(* The registry and the dispatcher, driven through on_event,               *)
(* on_object_event, the handles' close() and direct process_ws calls.      *)

\* Messages: a ChannelDestroyed event with its `channel` field, a Dial event
\* with its `caller` and `peer` fields.  A field is "absent", "null", or the
\* identifier x of the channel object {"id": x} it holds.
DestroyMsg(x) == Msg("ChannelDestroyed", x, "absent", "absent")
DialMsg(c, p) == Msg("Dial", "absent", c, p)

InitRegistry ==
    /\ event_listeners = [t \in EventTypes |-> << >>]
    /\ nextRid = 1
    /\ handles = {}
    /\ lastCall = Call("none", "none", "none", 0, "ok")
    /\ gone = {}

InitDispatch ==
    /\ dpc = "idle"
    /\ dmsg = NoMsg
    /\ dsnap = << >>
    /\ di = 0
    /\ calls = << >>
    /\ handled = << >>
    /\ dres = "none"
    /\ tasks = {}

InitConnection ==
    /\ rpc = "idle"
    /\ rerr = "none"
    /\ cur = 0
    /\ websockets = {}
    /\ opened = 0
    /\ wsClosed = {}
    /\ collab = "ok"
    /\ cpc = "idle"
    /\ clist = << >>
    /\ csnap = {}
    /\ swaggerClosed = FALSE

Init == InitRegistry /\ InitDispatch /\ InitConnection

\* Listeners for one event type and the wildcard, every callback behaviour.
Next ==
    \/ OnEvent({"Dial", "*"}, Callbacks, {PlainForm})
    \/ HandleClose
    \/ ProcessWs({DialMsg("42", "43"), DestroyMsg("42")})
    \/ ListenerDone

Spec == Init /\ [][Next]_vars

\* One event type's list, registrations with and without a channel
\* identifier, and the ChannelDestroyed pass acting on them.
NextReg ==
    \/ OnEvent({"ChannelDestroyed"}, Callbacks, {PlainForm, PosForm("42")})
    \/ HandleClose
    \/ ProcessWs({DestroyMsg("42")})
    \/ ListenerDone

SpecReg == Init /\ [][NextReg]_vars

\* The ChannelDestroyed pass against every way of handing a channel
\* identifier to a registration.
NextGC ==
    \/ OnEvent({"ChannelDestroyed", "*"}, {"cb_ok"},
               {PlainForm, PosForm("42"), KwForm("42"), ArgsForm("42"), PosForm("43")})
    \/ HandleClose
    \/ ProcessWs({DestroyMsg("42"), DestroyMsg("null"), DestroyMsg("absent")})
    \/ ListenerDone

SpecGC == Init /\ [][NextGC]_vars

\* The ChannelDestroyed pass and the dispatch of another event type against
\* lists that hold registrations for the destroyed channel and for another
\* channel.
NextFrame ==
    \/ OnEvent({"ChannelDestroyed", "*"}, Callbacks,
               {PosForm("42"), KwForm("43")})
    \/ ProcessWs({DestroyMsg("42"), DialMsg("42", "43")})
    \/ ListenerDone

SpecFrame == Init /\ [][NextFrame]_vars

\* Registrations with extra arguments through on_event, on_object_event and
\* the per-kind wrappers: none, one or two extra positionals, a keyword, the
\* as_task keyword.
BridgeMsg(x) == [Msg("BridgeDestroyed", "absent", "absent", "absent") EXCEPT !.bridge = x]
TwoPosForm(x, y) == Form(<<x, y>>, "unset", {})
ArgForms == {PlainForm, PosForm("42"), TwoPosForm("42", "43"), KwForm("42"), TaskForm}

NextArgs ==
    \/ OnEvent({"Dial"}, {"cb_ok"}, ArgForms)
    \/ OnObjectEvent({"Dial"}, {"cb_ok"}, {"Channel"}, ArgForms)
    \/ OnChannelEvent({"Dial"}, {"cb_ok"}, ArgForms)
    \/ OnBridgeEvent({"BridgeDestroyed"}, {"cb_ok"}, ArgForms)
    \/ ProcessWs({DialMsg("42", "43"), BridgeMsg("42")})
    \/ ListenerDone

SpecArgs == Init /\ [][NextArgs]_vars

\* Listeners in both modes, awaited in place and detached.
NextTask ==
    \/ OnEvent({"Dial"}, Callbacks, {PlainForm, TaskForm})
    \/ HandleClose
    \/ ProcessWs({DialMsg("42", "43")})
    \/ ListenerDone
    \/ TaskDone

SpecTask == Init /\ [][NextTask]_vars

\* Object-event listeners: event types with one Channel field, with two and
\* without a model; object kinds with and without a field.
ObjTypes == {"ChannelDestroyed", "Dial", "Nope"}
ObjMsgs ==
    {DestroyMsg(x) : x \in {"absent", "null", "42"}}
        \cup {DialMsg(c, p) : c \in {"absent", "null", "42"}, p \in {"absent", "43"}}

NextObj ==
    \/ OnObjectEvent(ObjTypes, {"cb_ok"}, ModelIds, {PlainForm})
    \/ HandleClose
    \/ ProcessWs(ObjMsgs)
    \/ ListenerDone

SpecObj == Init /\ [][NextObj]_vars

\* The supervisor: run() and close() as concurrent tasks, with two
\* listeners registered beforehand.
RunListeners ==
    [t \in EventTypes |->
        CASE t = "*" -> <<callback_obj("*", PlainCallback("cb_ok"),
                                       BindOnEvent(<< >>, "unset", {}), 1)>>
          [] t = "ChannelDestroyed" ->
                 <<callback_obj("ChannelDestroyed", PlainCallback("cb_raise"),
                                BindOnEvent(<<"42">>, "unset", {}), 2)>>
          [] OTHER -> << >>]

RunMsgs == {DestroyMsg("42"), DestroyMsg("absent"), DialMsg("42", "43")}

InitSupervisor ==
    /\ event_listeners = RunListeners
    /\ nextRid = 3
    /\ handles = Entries(RunListeners)
    /\ lastCall = Call("none", "none", "none", 0, "ok")
    /\ gone = {}
    /\ InitDispatch
    /\ rpc = "idle"
    /\ rerr = "none"
    /\ cur = 0
    /\ websockets = {}
    /\ opened = 0
    /\ wsClosed = {}
    /\ collab \in {"transport", "other", "ok"}
    /\ cpc = "idle"
    /\ clist = << >>
    /\ csnap = {}
    /\ swaggerClosed = FALSE

NextRun ==
    \/ Run
    \/ Open
    \/ Wake
    \/ Recover
    \/ Receive(RunMsgs)
    \/ ListenerDone
    \/ ClientClose
    \/ Unsubscribed
    \/ WsClosed
    \/ SwaggerClose

SpecRun == InitSupervisor /\ [][NextRun]_vars

\* The event loop runs a task that is ready: the eventWebsocket call ends
\* and the one-second sleep ends.
SpecRunFair == SpecRun /\ WF_vars(Open) /\ WF_vars(Wake)

----------------------------------------------------------------------------
(* Claims *)

Present(rid) == \E e \in Entries(event_listeners) : e.rid = rid
Last(s) == s[Len(s)]
Front(s) == SubSeq(s, 1, Len(s) - 1)

\* C1: every event type's list holds at most one registration per callback;
\* an on_event(T, cb, ...) call leaves T's list equal to its old entries
\* other than cb's, in their old order, followed by the new registration of
\* cb, and leaves the other lists alone.
C1_OneRegistrationPerCallback ==
    /\ [](\A t \in EventTypes : \A i, j \in 1..Len(event_listeners[t]) :
            i # j => event_listeners[t][i].callback # event_listeners[t][j].callback)
    /\ [][nextRid' = nextRid + 1 =>
            \E t \in EventTypes :
                LET old == event_listeners[t]
                    new == event_listeners'[t]
                IN  /\ Len(new) >= 1
                    /\ Last(new).rid = nextRid
                    /\ Front(new) = SelectSeq(old, LAMBDA e : e.callback # Last(new).callback)
                    /\ \A u \in EventTypes \ {t} : event_listeners'[u] = event_listeners[u]]_vars

\* C1 witness: cb was registered (handle h), another callback after it, and
\* cb again: cb's registration is the new one, last, after the other entry.
C1_Witness ==
    \E t \in EventTypes, h \in handles :
        LET lst == event_listeners[t]
        IN  /\ Len(lst) >= 2
            /\ h.etype = t
            /\ lastCall.op = "on_event"
            /\ Last(lst).rid = lastCall.rid
            /\ Last(lst).callback = h.callback
            /\ h.rid < lst[1].rid
            /\ lst[1].rid < Last(lst).rid

\* The arguments given at registration contain x: as a positional argument
\* (bound to event_obj, to as_task or into args) or as a keyword value.
ArgsContain(e, x) ==
    \/ e.event_obj = x
    \/ e.as_task = x
    \/ x \in SeqRange(e.args)
    \/ \E kv \in e.kwargs : kv[2] = x

JustDispatched(msg) ==
    /\ lastCall.op = "process_ws"
    /\ dpc = "idle"
    /\ dres = "none"
    /\ dmsg = msg

\* C2: right after a ChannelDestroyed message for identifier X has been
\* dispatched, no list holds a registration whose arguments contain X.
C2_DestroyRemovesAllWithId ==
    \A x \in Ids : JustDispatched(DestroyMsg(x)) =>
        \A e \in Entries(event_listeners) : ~ArgsContain(e, x)

\* The listener's failure is one the loop's except clause sees: raised by
\* the call, or by the awaitable when it is awaited in place.
Raises(l) ==
    \/ Behaviour(l.callback.fn) = "raise"
    \/ Behaviour(l.callback.fn) = "coro_raise" /\ ~Truthy(l.as_task)

\* C3: when a listener of the resolved list ends, raising or not, the next
\* listener of the list is invoked for the same message; a raised error is
\* passed to exception_handler and never leaves process_ws.
C3_RaisingListenerIsolated ==
    [][(dpc = "in_listener" /\ (di' # di \/ dpc' # dpc)) =>
          /\ Raises(dsnap[di]) => handled' = Append(handled, dsnap[di].rid)
          /\ di < Len(dsnap) =>
                /\ dpc' = "in_listener"
                /\ di' = di + 1
                /\ Len(calls') = di'
                /\ calls'[di'].rid = dsnap[di'].rid
                /\ dmsg' = dmsg
          /\ dres' # "listener_error"]_vars

\* C3 witness: a listener raised, its error went to the handler, and the
\* listener after it is running.
C3_Witness ==
    /\ dpc = "in_listener"
    /\ di >= 2
    /\ Raises(dsnap[di - 1])
    /\ handled # << >>
    /\ Last(handled) = dsnap[di - 1].rid
    /\ calls[di].rid = dsnap[di].rid

\* C4: the listeners invoked for a message of type T are the registrations
\* for T, then those for "*", each group in insertion order (rids grow with
\* insertion): the list is fixed on entry from the registry, the invocations
\* follow it, and process_ws does not end before its last listener.
C4_TypeThenWildcard ==
    /\ [](dpc = "in_listener" =>
            /\ Len(calls) = di
            /\ \A i \in 1..di : calls[i].rid = dsnap[i].rid
            /\ \A i, j \in 1..di : i < j =>
                  /\ ~(calls[i].etype = "*" /\ calls[j].etype # "*")
                  /\ calls[i].etype = calls[j].etype => calls[i].rid < calls[j].rid
            /\ \A i \in 1..di : calls[i].etype \in {dmsg.type, "*"})
    /\ [][(dpc = "idle" /\ dpc' = "in_listener") =>
            {e.rid : e \in SeqRange(dsnap')} =
                {e.rid : e \in SeqRange(event_listeners[dmsg'.type])
                                 \cup SeqRange(event_listeners["*"])}]_vars
    /\ [][(dpc = "in_listener" /\ dpc' = "idle") => di = Len(dsnap)]_vars

\* C4 witness: a wildcard listener registered first is running after a
\* type listener registered later.
C4_Witness ==
    /\ dpc = "in_listener"
    /\ di >= 2
    /\ calls[1].etype = dmsg.type
    /\ calls[di].etype = "*"
    /\ calls[di].rid < calls[1].rid

\* C5: a close() on a handle whose registration is in the registry removes
\* that registration and nothing else; a close() on a handle that was closed
\* before, or whose registration the ChannelDestroyed pass removed, changes
\* nothing.
C5_CloseIdempotent ==
    [][lastCall'.op = "close" =>
          /\ Present(lastCall'.rid) =>
                {e.rid : e \in Entries(event_listeners')} =
                    {e.rid : e \in Entries(event_listeners)} \ {lastCall'.rid}
          /\ lastCall'.rid \in gone =>
                event_listeners' = event_listeners]_vars

\* C6: a transport error of the stream-open call never leaves run(), and
\* whenever run() is connecting or waiting to retry with the collaborator no
\* longer failing, it reaches the connected state: the new handle tracked
\* and its frames awaited.
C6_RetryUntilConnected ==
    /\ [](rerr # "transport")
    /\ ((rpc \in {"connecting", "sleeping"} /\ collab = "ok")
          ~> (rpc = "reading" /\ cur \in websockets))

\* C6 witness: an open attempt failed with a transport error, run() is
\* waiting to retry, and the collaborator has stopped failing.
C6_Witness ==
    /\ rpc = "sleeping"
    /\ rerr = "none"
    /\ collab = "ok"
    /\ websockets = {}

\* C7: right after a malformed text frame (not JSON, not an object, or
\* without `type`) was received, __run is reading the next frame and nothing
\* is being dispatched.
Malformed == {"bad_json", "not_object", "no_type"}
C7_MalformedFrameSkipped ==
    (lastCall.op = "receive" /\ lastCall.result \in Malformed) =>
        /\ rpc = "reading"
        /\ rerr = "none"
        /\ dpc = "idle"

\* C8: when close() has ended, by return or by exception, every handle that
\* was tracked when it listed them has had close() called on it and is no
\* longer tracked, and swagger.close() has been called.
C8_ShutdownCompletes ==
    cpc \in {"done", "raised"} =>
        /\ csnap \subseteq wsClosed
        /\ csnap \cap websockets = {}
        /\ swaggerClosed

\* The fields of an event type's model declared with the given kind, and
\* those of them that a message carries with a non-null value.
KindFields(event_type, model_id) ==
    {p[1] : p \in {q \in SeqRange(event_models(event_type)) : q[2] = model_id}}
CarriedFields(event_type, model_id, msg) ==
    {f \in KindFields(event_type, model_id) : msg[f] \notin {"absent", "null"}}

\* C9: an on_object_event call for an event type without a model, or for an
\* object kind no field of the model has, ends in ValueError and leaves the
\* registry (and the handles given out) as they were.
C9_ConfigErrorRegistersNothing ==
    [][(/\ lastCall'.op = "on_object_event"
        /\ \/ event_models(lastCall'.etype) = << >>
           \/ KindFields(lastCall'.etype, lastCall'.model_id) = {})
       => /\ lastCall'.result = "ValueError"
          /\ event_listeners' = event_listeners
          /\ handles' = handles]_vars

\* C9 witness: with a listener registered, a call for a kind the model has
\* no field of has just ended in ValueError.
C9_Witness ==
    /\ lastCall.op = "on_object_event"
    /\ lastCall.result = "ValueError"
    /\ event_models(lastCall.etype) # << >>
    /\ KindFields(lastCall.etype, lastCall.model_id) = {}
    /\ Entries(event_listeners) # {}

C11_NoReconnectAfterClose ==
    /\ [][(cpc # "idle" /\ rpc = "reading") => rpc' # "connecting"]_vars
    /\ [](cpc = "done" => websockets = {})

\* C12: when the awaitable of a detached listener (as_task true) ends in an
\* exception, that exception is passed to exception_handler.
C12_DetachedFailureHandled ==
    [][\A r \in tasks \ tasks' : handled' = Append(handled, r)]_vars

\* C13: on a connection, a frame is read only when no message is being
\* dispatched; an event frame's message is dispatched at once, on its
\* receipt, so messages are dispatched in the order received; while it is
\* dispatched run() stays in its await of process_ws, with exactly one
\* listener of the list running.
C13_DispatchBeforeNextFrame ==
    /\ [](dpc = "in_listener" => (rpc = "dispatching" /\ Len(calls) = di))
    /\ [][lastCall'.op = "receive" => (dpc = "idle" /\ rpc = "reading")]_vars
    /\ [][(lastCall'.op = "receive" /\ lastCall'.result = "event") =>
            /\ dmsg' \in RunMsgs
            /\ \/ dpc' = "in_listener" /\ di' = 1 /\ rpc' = "dispatching"
               \/ dpc' = "idle" /\ resolve(event_listeners, dmsg'.type) = << >>]_vars
    /\ [][(dpc = "idle" /\ dpc' = "in_listener") =>
            (lastCall'.op = "receive" /\ lastCall'.result = "event")]_vars
    /\ [][(rpc = "dispatching" /\ rpc' # "dispatching") => di = Len(dsnap)]_vars

\* C13 witness: a message is being dispatched by run() after an earlier
\* ChannelDestroyed message was dispatched to its end.
C13_Witness ==
    /\ dpc = "in_listener"
    /\ rpc = "dispatching"
    /\ lastCall.op = "receive"
    /\ gone # {}

\* C14: the list of listeners of a dispatch is the registry's list for the
\* message's type followed by the wildcard list, as they are when process_ws
\* is entered; it stays the same until process_ws ends, whatever is
\* registered or closed meanwhile; the listeners invoked so far are its
\* first entries, each once and in its order, and process_ws ends only
\* after its last entry.
C14_SnapshotDispatch ==
    /\ [][(dpc = "idle" /\ dpc' = "in_listener") =>
            dsnap' = resolve(event_listeners, dmsg'.type)]_vars
    /\ [][(dpc = "in_listener" /\ dpc' = "in_listener") =>
            (dsnap' = dsnap /\ dmsg' = dmsg)]_vars
    /\ [](dpc = "in_listener" =>
            /\ Len(calls) = di
            /\ \A i \in 1..di : calls[i].rid = dsnap[i].rid)
    /\ [][(dpc = "in_listener" /\ dpc' = "idle") => di = Len(dsnap)]_vars

\* C14 witness: the listener running was closed during this dispatch, after
\* an earlier listener of the list started, and a registration made during
\* the dispatch is in the registry's list but not in the dispatch's list.
C14_Witness ==
    /\ dpc = "in_listener"
    /\ di >= 2
    /\ ~Present(dsnap[di].rid)
    /\ \E e \in SeqRange(resolve(event_listeners, dmsg.type)) :
          \A i \in 1..Len(dsnap) : dsnap[i].rid # e.rid

\* C15: while run() reads or dispatches the frames of a handle, that handle
\* is the only one that can be tracked: a handle whose read loop has ended
\* is no longer in the tracked set.
C15_TrackedOnlyOpen ==
    rpc \in {"reading", "dispatching"} => websockets \subseteq {cur}

\* C16: when process_ws returns from a message that is no ChannelDestroyed,
\* the registry is as it was; when it returns from a ChannelDestroyed for
\* identifier X, every list is its old self without some entries, the rest
\* in their old order, and every entry dropped has X among its arguments.
C16_DestroyKeepsUnrelated ==
    [][(/\ lastCall'.op = "process_ws"
        /\ dpc' = "idle"
        /\ dmsg'.type = "ChannelDestroyed" => dmsg'.channel \in Ids)
       => /\ dmsg'.type # "ChannelDestroyed" => event_listeners' = event_listeners
          /\ \A t \in DOMAIN event_listeners :
                LET kept == {e.rid : e \in SeqRange(event_listeners'[t])}
                IN  event_listeners'[t] =
                        SelectSeq(event_listeners[t], LAMBDA e : e.rid \in kept)
          /\ \A e \in Entries(event_listeners) \ Entries(event_listeners') :
                ArgsContain(e, dmsg'.channel)]_vars

\* C16 witness: a ChannelDestroyed for "42" has just been dispatched; a
\* registration for "42" is gone from between two registrations of its list
\* that are still there, in their order.
C16_Witness ==
    /\ JustDispatched(DestroyMsg("42"))
    /\ \E h \in handles, t \in EventTypes :
          /\ h.etype = t
          /\ h.event_obj = "42"
          /\ h.rid \in gone
          /\ Len(event_listeners[t]) = 2
          /\ event_listeners[t][1].rid < h.rid
          /\ h.rid < event_listeners[t][2].rid
          /\ ~ArgsContain(event_listeners[t][1], "42")

RegOps == {"on_event", "on_object_event", "on_channel_event", "on_bridge_event"}

\* C17: a registration call given extra positional and keyword arguments
\* does not fail on them, and its registration holds exactly those
\* positionals, in order, as args and those keywords as kwargs, none of them
\* as event_obj or as the mode; every invocation hands the registration's
\* args and kwargs to the callback.
C17_ExtraArgsForwarded ==
    /\ [][(lastCall'.op \in RegOps /\ lastCall'.result # "ValueError") =>
            /\ lastCall'.result = "ok"
            /\ \E e \in Entries(event_listeners') :
                  /\ e.rid = lastCall'.rid
                  /\ e.args = lastCall'.form.pos
                  /\ e.kwargs = lastCall'.form.kwargs
                  /\ e.event_obj = "None"
                  /\ e.as_task = IF lastCall'.form.as_task = "unset" THEN "False"
                                 ELSE lastCall'.form.as_task]_vars
    /\ [](\A i \in 1..Len(calls) :
            calls[i].args = dsnap[i].args /\ calls[i].kwargs = dsnap[i].kwargs)

\* C18: every event type's list holds at most one registration per user
\* callback registered through on_object_event, and a message is handed to
\* that callback once.
C18_ObjectEventRegisteredOnce ==
    /\ \A t \in EventTypes : \A i, j \in 1..Len(event_listeners[t]) :
          i # j => event_listeners[t][i].callback.fn # event_listeners[t][j].callback.fn
    /\ \A i, j \in 1..Len(calls) : i # j => calls[i].fn # calls[j].fn

\* C19: a process_ws call made by the read loop ends by returning, and the
\* read loop then awaits the next frame: no exception leaves process_ws.
C19_DispatchNeverRaises ==
    /\ [](dres \in {"none", "running"})
    /\ [][rpc = "dispatching" => rpc' \in {"dispatching", "reading"}]_vars

\* C20: a close() on a handle leaves in the registry every registration
\* other than the one made by the on_event call that returned the handle.
C20_CloseRemovesOwnOnly ==
    [][lastCall'.op = "close" =>
          \A e \in Entries(event_listeners) :
              e.rid # lastCall'.rid => e \in Entries(event_listeners')]_vars

====
